---------------------------- MODULE Spec2Model ----------------------------
(***************************************************************************)
(* A model of the arcade chase game of src/arcade_starter/main.py: the     *)
(* Predator controller (state machine, steering, wall handling, collision  *)
(* test) and the GameView frame loop that drives it.                       *)
(*                                                                         *)
(* Numbers.  The program computes in IEEE doubles; the model computes in   *)
(* fixed point.  Lengths and speeds are integers counting 1/Scale pixel    *)
(* (pixel per second), times are integer milliseconds, angles are integer  *)
(* milliradians and the accuracy is in thousandths.  Every product that is *)
(* divided is rounded to the nearest unit (RDiv), as a double operation    *)
(* rounds to the nearest double, and a square root is the largest unit not *)
(* above the root.  Vectors too long to square in 32 bits are scaled down  *)
(* by a power of two first (Reduce), the way a double keeps a mantissa.    *)
(*                                                                         *)
(* Randomness.  The program draws from the one hidden generator of the     *)
(* module `random'.  The model keeps it as the variable rng: a tape (the   *)
(* seed) and a position on it; every random.uniform, random.randint and    *)
(* random.choice call reads the unit value at the position and advances    *)
(* it.                                                                     *)
(***************************************************************************)
EXTENDS Integers, Sequences, FiniteSets, TLC

VARIABLES
    rng,        \* the generator of module random: [tape, pos]
    predator,   \* a Predator object driven directly through its methods
    last,       \* what the last direct method call on predator did
    steps,      \* number of direct method calls made so far
    view,       \* the view the window shows: "menu" or "game"
    window,     \* the window: [width, height, fullscreen], in pixels
    game,       \* the GameView object, once one was created
    calls,      \* the Predator method calls the last on_update made, in order
    frames,     \* number of on_update calls made so far
    audio       \* an AudioManager object, once one was created

--------------------------------------------------------------------------
(* Bounds of the model *)

\* length units per pixel (and speed units per pixel/second)
Scale == 10
\* a unit draw of the generator is one of 0/UnitDen .. UnitDen/UnitDen
UnitDen == 16
\* number of direct Predator method calls explored
MaxSteps == 3
\* number of on_update calls explored
MaxFrames == 3

\* number of on_update calls made in the exploration of the fruits
MaxFruitFrames == 2

\* number of playbacks of the background music explored
MaxPlays == 2

\* number of update calls with short frames explored from a predator that
\* is not hesitating
MaxShortSteps == 9

--------------------------------------------------------------------------
(* Program constants *)

WIDTH == 960
HEIGHT == 540
MOVE_SPEED == 300
PREDATOR_SPEED == 150
FRUIT_SIZE == 16
PREDATOR_SIZE == 24
\* Predator.acceleration
ACCELERATION == 400
\* the side of a player's sprite
PLAYER_SIZE == 32
\* the number of predators and of fruits a GameView creates
NUM_PREDATORS == 3
NUM_FRUITS == 15
\* the number of fruit colours
NUM_COLORS == 15

--------------------------------------------------------------------------
(* Fixed-point arithmetic *)

Abs(a) == IF a < 0 THEN -a ELSE a

Sgn(a) == IF a < 0 THEN -1 ELSE IF a > 0 THEN 1 ELSE 0

Min(a, b) == IF a < b THEN a ELSE b

Max(a, b) == IF a > b THEN a ELSE b

\* a / b rounded to the nearest integer, halves away from zero (b > 0)
RDiv(a, b) == IF a >= 0 THEN (2 * a + b) \div (2 * b)
                        ELSE -((2 * (-a) + b) \div (2 * b))

\* a * b / c rounded, without forming a * b when a is large (b, c > 0)
MulDiv(a, b, c) ==
    LET q == Abs(a) \div c
        r == Abs(a) % c
        v == q * b + RDiv(r * b, c)
    IN  IF a < 0 THEN -v ELSE v

RECURSIVE SqrtIter(_, _)
SqrtIter(n, x) ==
    LET y == (x + n \div x) \div 2
    IN  IF y >= x THEN x ELSE SqrtIter(n, y)

\* math.sqrt on a non-negative integer: the largest r with r * r <= n
Sqrt(n) == IF n <= 0 THEN 0
           ELSE SqrtIter(n, IF n > 1000000 THEN 46340
                            ELSE IF n > 10000 THEN 1000 ELSE 100)

\* the largest magnitude whose square (summed over two axes) fits 32 bits
Mantissa == 16384

RECURSIVE Reduce(_, _, _)
\* (a, b) scaled down by a power of two f until both fit Mantissa
Reduce(a, b, f) ==
    IF Abs(a) <= Mantissa /\ Abs(b) <= Mantissa
    THEN [x |-> a, y |-> b, f |-> f]
    ELSE Reduce(Sgn(a) * (Abs(a) \div 2), Sgn(b) * (Abs(b) \div 2), 2 * f)

\* math.sqrt(a*a + b*b): len is the root cut to a whole unit, over tells
\* that the root lies above len; x, y and m are the reduced vector and its
\* root, for the quotients x / m and y / m
Root(r, s, m) ==
    [x |-> r.x, y |-> r.y, m |-> m, len |-> m * r.f,
     over |-> (m * m < s \/ r.f > 1)]

HypotOf(r) == Root(r, r.x * r.x + r.y * r.y, Sqrt(r.x * r.x + r.y * r.y))

Hypot(a, b) == HypotOf(Reduce(a, b, 1))

\* root < t, for a root h of Hypot and a whole number of units t
Lt(h, t) == h.len < t

\* root > t
Gt(h, t) == h.len > t \/ (h.len = t /\ h.over)

--------------------------------------------------------------------------
(* Trigonometry, to a thousandth *)

PiMilli == 3142

\* math.sin of a in milliradians, 0 <= a <= PiMilli, in thousandths
\* (Bhaskara's rational approximation)
SinHalfTurn(a) ==
    LET q == a * (PiMilli - a)
    IN  RDiv(16 * q, RDiv(5 * PiMilli * PiMilli - 4 * q, 1000))

\* math.sin(a), a in milliradians, in thousandths
SinMilli(a) ==
    LET r == a % (2 * PiMilli)
    IN  IF r <= PiMilli THEN SinHalfTurn(r) ELSE -SinHalfTurn(r - PiMilli)

\* math.cos(a), a in milliradians, in thousandths
CosMilli(a) == SinMilli(a + PiMilli \div 2)

\* atan(n / d) for 0 <= n <= d, d > 0, in milliradians
AtanOctant(n, d) ==
    LET z == RDiv(1000 * n, d)
    IN  RDiv(z * (785 + RDiv(273 * (1000 - z), 1000)), 1000)

\* atan(y / x) for x, y >= 0, not both 0, in milliradians
AtanQuadrant(y, x) ==
    IF y <= x THEN AtanOctant(y, x)
    ELSE PiMilli \div 2 - AtanOctant(x, y)

\* math.atan2(y, x) in milliradians
Atan2Milli(y, x) ==
    IF x = 0 /\ y = 0 THEN 0
    ELSE LET a == AtanQuadrant(Abs(y), Abs(x))
             b == IF x < 0 THEN PiMilli - a ELSE a
         IN  IF y < 0 THEN -b ELSE b

--------------------------------------------------------------------------
(* The generator of module random *)

\* The seeds explored: each tape is the cycle of unit draws (in 1/UnitDen)
\* the generator produces from that seed.
Tapes == << <<0>>,
            <<16, 0, 8, 4>>,
            <<0, 16, 12>>,
            <<8, 0, 4, 16, 0, 16>>,
            <<9, 8, 4, 12>>,
            <<8>>,
            <<0, 8, 8>>,
            <<8, 8, 0, 16>> >>

\* the unit draw the next random call returns
Unit(g) == Tapes[g.tape][g.pos + 1]

\* the generator after one random call
Advance(g) == [g EXCEPT !.pos = (g.pos + 1) % Len(Tapes[g.tape])]

\* random.uniform(a, b) for the unit draw u
Uniform(a, b, u) == a + RDiv((b - a) * u, UnitDen)

\* random.randint(a, b) for the unit draw u
RandInt(a, b, u) == Min(b, a + ((b - a + 1) * u) \div UnitDen)

--------------------------------------------------------------------------
(* class Predator *)

\* Predator.__init__(x, y), x and y in pixels, drawing from generator g
NewPredator(x, y, g) ==
    LET g1 == Advance(g)
        g2 == Advance(g1)
        g3 == Advance(g2)
    IN  [p |-> [center_x |-> x * Scale,
                center_y |-> y * Scale,
                velocity_x |-> 0,
                velocity_y |-> 0,
                rotation |-> 0,
                state |-> "hunting",
                state_timer |-> 0,
                reaction_delay |-> Uniform(100, 300, Unit(g)),
                reaction_timer |-> 0,
                target_x |-> x * Scale,
                target_y |-> y * Scale,
                last_player_x |-> x * Scale,
                last_player_y |-> y * Scale,
                player_velocity_x |-> 0,
                player_velocity_y |-> 0,
                accuracy |-> Uniform(700, 950, Unit(g1)),
                hesitation_timer |-> 0,
                is_hesitating |-> FALSE,
                patrol_center_x |-> x * Scale,
                patrol_center_y |-> y * Scale,
                patrol_radius |-> Uniform(80 * Scale, 120 * Scale, Unit(g2)),
                patrol_angle |-> Uniform(0, 2 * PiMilli, Unit(g3))],
         g |-> Advance(g3)]

\* self.max_speed, in speed units
MaxSpeed == PREDATOR_SPEED * Scale

\* update: the timers advance by delta_time
Timers(p, dt) ==
    [p EXCEPT !.state_timer = @ + dt,
              !.reaction_timer = @ + dt,
              !.hesitation_timer = @ + dt]

\* a perception in every call
PerceiveAlways(p, player_x, player_y) ==
    [p EXCEPT
        !.player_velocity_x =
            MulDiv(player_x - p.last_player_x, 1000, p.reaction_delay),
        !.player_velocity_y =
            MulDiv(player_y - p.last_player_y, 1000, p.reaction_delay),
        !.last_player_x = player_x,
        !.last_player_y = player_y,
        !.reaction_timer = 0]

\* a perception that leaves reaction_timer running
PerceiveNoReset(p, player_x, player_y) ==
    IF p.reaction_timer >= p.reaction_delay
    THEN [p EXCEPT
            !.player_velocity_x =
                MulDiv(player_x - p.last_player_x, 1000, p.reaction_delay),
            !.player_velocity_y =
                MulDiv(player_y - p.last_player_y, 1000, p.reaction_delay),
            !.last_player_x = player_x,
            !.last_player_y = player_y]
    ELSE p

\* update: the perception of the player's velocity, once per reaction_delay
Perceive(p, player_x, player_y) ==
    IF p.reaction_timer >= p.reaction_delay
    THEN [p EXCEPT
            !.player_velocity_x =
                MulDiv(player_x - p.last_player_x, 1000, p.reaction_delay),
            !.player_velocity_y =
                MulDiv(player_y - p.last_player_y, 1000, p.reaction_delay),
            !.last_player_x = player_x,
            !.last_player_y = player_y,
            !.reaction_timer = 0]
    ELSE p

\* math.sqrt((ax - bx)**2 + (ay - by)**2)
Distance(ax, ay, bx, by) == Hypot(ax - bx, ay - by)

\* a state management without the near rule
NextStateNoNear(state, distance) ==
    IF Gt(distance, 200 * Scale) /\ state = "hunting" THEN "intercepting"
    ELSE IF Gt(distance, 300 * Scale) THEN "patrolling"
    ELSE state

\* a state management that tries the far rule before the hunting one
NextStateFarFirst(state, distance) ==
    IF Lt(distance, 100 * Scale) THEN "hunting"
    ELSE IF Gt(distance, 300 * Scale) THEN "patrolling"
    ELSE IF Gt(distance, 200 * Scale) /\ state = "hunting" THEN "intercepting"
    ELSE state

\* a state management whose far rule takes the distance 300 itself
NextStateFrom300(state, distance) ==
    IF Lt(distance, 100 * Scale) THEN "hunting"
    ELSE IF Gt(distance, 200 * Scale) /\ state = "hunting" THEN "intercepting"
    ELSE IF ~Lt(distance, 300 * Scale) THEN "patrolling"
    ELSE state

\* a state management whose second rule takes every state but intercepting
NextStateFromPatrol(state, distance) ==
    IF Lt(distance, 100 * Scale) THEN "hunting"
    ELSE IF Gt(distance, 200 * Scale) /\ state # "intercepting"
    THEN "intercepting"
    ELSE IF Gt(distance, 300 * Scale) THEN "patrolling"
    ELSE state

\* update: the state management from the distance to the player
NextState(state, distance) ==
    IF Lt(distance, 100 * Scale) THEN "hunting"
    ELSE IF Gt(distance, 200 * Scale) /\ state = "hunting" THEN "intercepting"
    ELSE IF Gt(distance, 300 * Scale) THEN "patrolling"
    ELSE state

\* the hesitation rules with an exit threshold from [0.2, 2.0] seconds
HesitateExitLate(p, g) ==
    LET enter == p.hesitation_timer > Uniform(3000, 8000, Unit(g))
        p1 == IF enter THEN [p EXCEPT !.is_hesitating = TRUE,
                                      !.hesitation_timer = 0]
              ELSE p
        g1 == Advance(g)
    IN  IF p1.is_hesitating
        THEN [p |-> IF p1.hesitation_timer > Uniform(200, 2000, Unit(g1))
                    THEN [p1 EXCEPT !.is_hesitating = FALSE,
                                    !.hesitation_timer = 0]
                    ELSE p1,
              g |-> Advance(g1)]
        ELSE [p |-> p1, g |-> g1]

\* update: the random hesitation; the second threshold is drawn only when
\* the predator is hesitating (the `and' short-circuits)
Hesitate(p, g) ==
    LET enter == p.hesitation_timer > Uniform(3000, 8000, Unit(g))
        p1 == IF enter THEN [p EXCEPT !.is_hesitating = TRUE,
                                      !.hesitation_timer = 0]
              ELSE p
        g1 == Advance(g)
    IN  IF p1.is_hesitating
        THEN [p |-> IF p1.hesitation_timer > Uniform(200, 800, Unit(g1))
                    THEN [p1 EXCEPT !.is_hesitating = FALSE,
                                    !.hesitation_timer = 0]
                    ELSE p1,
              g |-> Advance(g1)]
        ELSE [p |-> p1, g |-> g1]

\* _calculate_target: prediction_time = distance / max_speed * lead, in
\* milliseconds, lead in tenths
PredictionTime(distance, lead) == RDiv(distance * 100 * lead, MaxSpeed)

\* an aim point whose interception offset goes to the axis of the larger
\* estimated velocity
AimPointLargerAxis(p, player_x, player_y, distance) ==
    IF p.state = "hunting"
    THEN LET t == PredictionTime(distance, 3)
         IN  [p EXCEPT
                !.target_x = player_x + MulDiv(p.player_velocity_x, t, 1000),
                !.target_y = player_y + MulDiv(p.player_velocity_y, t, 1000)]
    ELSE IF p.state = "intercepting"
    THEN LET t == PredictionTime(distance, 8)
             tx == player_x + MulDiv(p.player_velocity_x, t, 1000)
             ty == player_y + MulDiv(p.player_velocity_y, t, 1000)
         IN  IF Abs(p.player_velocity_x) < Abs(p.player_velocity_y)
             THEN [p EXCEPT
                    !.target_x = tx,
                    !.target_y = ty + 50 * Scale *
                        (IF p.center_y < player_y THEN 1 ELSE -1)]
             ELSE [p EXCEPT
                    !.target_x = tx + 50 * Scale *
                        (IF p.center_x < player_x THEN 1 ELSE -1),
                    !.target_y = ty]
    ELSE IF p.state = "patrolling"
    THEN LET a == p.patrol_angle + 8
         IN  [p EXCEPT
                !.patrol_angle = a,
                !.target_x = p.patrol_center_x
                             + RDiv(CosMilli(a) * p.patrol_radius, 1000),
                !.target_y = p.patrol_center_y
                             + RDiv(SinMilli(a) * p.patrol_radius, 1000)]
    ELSE p

\* _calculate_target: the aim point of the state, before the random error
AimPoint(p, player_x, player_y, distance) ==
    IF p.state = "hunting"
    THEN LET t == PredictionTime(distance, 3)
         IN  [p EXCEPT
                !.target_x = player_x + MulDiv(p.player_velocity_x, t, 1000),
                !.target_y = player_y + MulDiv(p.player_velocity_y, t, 1000)]
    ELSE IF p.state = "intercepting"
    THEN LET t == PredictionTime(distance, 8)
             tx == player_x + MulDiv(p.player_velocity_x, t, 1000)
             ty == player_y + MulDiv(p.player_velocity_y, t, 1000)
         IN  IF Abs(p.player_velocity_x) > Abs(p.player_velocity_y)
             THEN [p EXCEPT
                    !.target_x = tx,
                    !.target_y = ty + 50 * Scale *
                        (IF p.center_y < player_y THEN 1 ELSE -1)]
             ELSE [p EXCEPT
                    !.target_x = tx + 50 * Scale *
                        (IF p.center_x < player_x THEN 1 ELSE -1),
                    !.target_y = ty]
    ELSE IF p.state = "patrolling"
    THEN LET a == p.patrol_angle + 8
         IN  [p EXCEPT
                !.patrol_angle = a,
                !.target_x = p.patrol_center_x
                             + RDiv(CosMilli(a) * p.patrol_radius, 1000),
                !.target_y = p.patrol_center_y
                             + RDiv(SinMilli(a) * p.patrol_radius, 1000)]
    ELSE p

\* _calculate_target: random.uniform(-20, 20) * (1.0 - self.accuracy)
AimError(p, u) ==
    RDiv(Uniform(-20 * Scale, 20 * Scale, u) * (1000 - p.accuracy), 1000)

\* _calculate_target: the accuracy imperfection added to the aim point of q
AddAimError(q, g) ==
    [p |-> [q EXCEPT !.target_x = @ + AimError(q, Unit(g)),
                     !.target_y = @ + AimError(q, Unit(Advance(g)))],
     g |-> Advance(Advance(g)),
     aimed |-> [target_x |-> q.target_x, target_y |-> q.target_y]]

\* a target that is left alone while the predator hesitates
CalculateTargetUnlessHesitating(p, player_x, player_y, distance, g) ==
    IF p.is_hesitating
    THEN [p |-> p, g |-> Advance(Advance(g)),
          aimed |-> [target_x |-> p.target_x, target_y |-> p.target_y]]
    ELSE AddAimError(AimPoint(p, player_x, player_y, distance), g)

\* Predator._calculate_target(player_x, player_y, distance)
CalculateTarget(p, player_x, player_y, distance, g) ==
    AddAimError(AimPoint(p, player_x, player_y, distance), g)

\* the vector (x, y), of length h, cut to the length top when it is longer
LimitTo(h, x, y, top) ==
    IF Gt(h, top)
    THEN [x |-> RDiv(h.x * top, h.m), y |-> RDiv(h.y * top, h.m)]
    ELSE [x |-> x, y |-> y]

\* the speed limit lifted
LimitSpeedOff(vx, vy) == [x |-> vx, y |-> vy]

\* _move_towards_target: the velocity limited to max_speed
LimitSpeed(vx, vy) == LimitTo(Hypot(vx, vy), vx, vy, MaxSpeed)

\* _move_towards_target: the acceleration limited to acceleration * dt
LimitAccel(ax, ay, dt) ==
    LimitTo(Hypot(ax, ay), ax, ay, RDiv(ACCELERATION * Scale * dt, 1000))

\* _move_towards_target: the desired velocity, along d (the way to the
\* target) at desired_speed = min(max_speed, distance * 2)
DesiredVelocity(d) ==
    [x |-> RDiv(d.x * Min(MaxSpeed, d.len * 2), d.m),
     y |-> RDiv(d.y * Min(MaxSpeed, d.len * 2), d.m)]

\* _move_towards_target: the acceleration towards the desired velocity
Acceleration(p, desired, dt) ==
    LimitAccel(MulDiv((desired.x - p.velocity_x) * ACCELERATION, dt, 1000),
               MulDiv((desired.y - p.velocity_y) * ACCELERATION, dt, 1000),
               dt)

\* _move_towards_target: the velocity set to v
WithVelocity(p, v) == [p EXCEPT !.velocity_x = v.x, !.velocity_y = v.y]

\* _move_towards_target: the velocity changed by a and limited
Accelerate(p, a) ==
    WithVelocity(p, LimitSpeed(p.velocity_x + a.x, p.velocity_y + a.y))

\* _move_towards_target: d is the way to the target
MoveAlong(p, d, dt) ==
    IF Gt(d, Scale)
    THEN Accelerate(p, Acceleration(p, DesiredVelocity(d), dt))
    ELSE p

\* Predator._move_towards_target(delta_time)
MoveTowardsTarget(p, dt) ==
    MoveAlong(p, Hypot(p.target_x - p.center_x, p.target_y - p.center_y), dt)

\* update: velocity *= 0.5 while hesitating
Half(v) == RDiv(v, 2)

\* steering that ignores the hesitation
SteerAlways(p, dt) == MoveTowardsTarget(p, dt)

\* update: steer unless hesitating, else slow down
Steer(p, dt) ==
    IF ~p.is_hesitating THEN MoveTowardsTarget(p, dt)
    ELSE [p EXCEPT !.velocity_x = Half(@), !.velocity_y = Half(@)]

\* update: the position step
Step(p, dt) ==
    [p EXCEPT !.center_x = @ + RDiv(p.velocity_x * dt, 1000),
              !.center_y = @ + RDiv(p.velocity_y * dt, 1000)]

\* half_size = self.size / 2
HalfSize == (PREDATOR_SIZE * Scale) \div 2

\* abs(velocity) * 0.8
Bounce(v) == RDiv(Abs(v) * 8, 10)

\* a wall that reflects the velocity, whatever its sign
WallAxisReflect(c, v, bound) ==
    IF c <= HalfSize THEN [c |-> HalfSize, v |-> -RDiv(v * 8, 10)]
    ELSE IF c >= bound - HalfSize
    THEN [c |-> bound - HalfSize, v |-> -RDiv(v * 8, 10)]
    ELSE [c |-> c, v |-> v]

\* walls that hold the predator at the low end only
WallAxisLow(c, v, bound) ==
    IF c <= HalfSize THEN [c |-> HalfSize, v |-> Bounce(v)]
    ELSE [c |-> c, v |-> v]

\* _handle_wall_collisions: one axis; c the centre, v the velocity, bound
\* the window's extent on that axis, in length units
WallAxis(c, v, bound) ==
    IF c <= HalfSize THEN [c |-> HalfSize, v |-> Bounce(v)]
    ELSE IF c >= bound - HalfSize
    THEN [c |-> bound - HalfSize, v |-> -Bounce(v)]
    ELSE [c |-> c, v |-> v]

\* _handle_wall_collisions: the outcome on the two axes taken over
AtWalls(p, ax, ay) ==
    [p EXCEPT !.center_x = ax.c, !.velocity_x = ax.v,
              !.center_y = ay.c, !.velocity_y = ay.v]

\* Predator._handle_wall_collisions(window_width, window_height), in pixels
HandleWallCollisions(p, window_width, window_height) ==
    AtWalls(p, WallAxis(p.center_x, p.velocity_x, window_width * Scale),
               WallAxis(p.center_y, p.velocity_y, window_height * Scale))

\* a rotation that follows the velocity however small it is
RotateAlways(p) ==
    [p EXCEPT !.rotation = Atan2Milli(p.velocity_y, p.velocity_x)]

\* update: the visual rotation follows the velocity unless it is tiny
Rotate(p) ==
    IF 10 * Abs(p.velocity_x) > Scale \/ 10 * Abs(p.velocity_y) > Scale
    THEN [p EXCEPT !.rotation = Atan2Milli(p.velocity_y, p.velocity_x)]
    ELSE p

\* update, its end: p3 is the predator after the steering or slowing down,
\* p4 after the position step, c the outcome of _calculate_target; the
\* walls and the rotation follow
Land(p3, p4, c, distance, window_width, window_height) ==
    [p |-> Rotate(HandleWallCollisions(p4, window_width, window_height)),
     g |-> c.g,
     distance |-> distance,
     aimed |-> c.aimed,
     steered |-> [velocity_x |-> p3.velocity_x,
                  velocity_y |-> p3.velocity_y],
     stepped |-> [center_x |-> p4.center_x, center_y |-> p4.center_y,
                  velocity_x |-> p4.velocity_x,
                  velocity_y |-> p4.velocity_y]]

\* update, from the steering on: p3 is the predator after it, c the
\* outcome of _calculate_target
Advanced(p3, c, dt, distance, window_width, window_height) ==
    Land(p3, Step(p3, dt), c, distance, window_width, window_height)

\* update, from the target on: c holds the predator and the generator
\* after _calculate_target
Move(c, dt, distance, window_width, window_height) ==
    Advanced(Steer(c.p, dt), c, dt, distance, window_width, window_height)

\* update, from the hesitation on: h holds the predator and the generator
\* after it
Aim(h, dt, player_x, player_y, distance, window_width, window_height) ==
    Move(CalculateTarget(h.p, player_x, player_y, distance.len, h.g),
         dt, distance, window_width, window_height)

\* update, from the state management on: p1 is the predator after the
\* perception, distance its distance to the player
Decide(p1, g, dt, player_x, player_y, distance, window_width, window_height) ==
    Aim(Hesitate([p1 EXCEPT !.state = NextState(@, distance)], g),
        dt, player_x, player_y, distance, window_width, window_height)

\* update, from the distance on
Track(p1, g, dt, player_x, player_y, window_width, window_height) ==
    Decide(p1, g, dt, player_x, player_y,
           Distance(p1.center_x, p1.center_y, player_x, player_y),
           window_width, window_height)

\* Predator.update(delta_time, player_x, player_y, window_width,
\* window_height): delta_time in milliseconds, the player's position in
\* length units, the window in pixels.  The result holds the predator and
\* the generator after the call, and the values the call went through: the
\* distance to the player, the aim point before the random error (aimed),
\* the velocity after the steering or slowing down (steered) and the centre
\* and velocity after the position step (stepped).
Update(p, g, dt, player_x, player_y, window_width, window_height) ==
    Track(Perceive(Timers(p, dt), player_x, player_y), g, dt,
          player_x, player_y, window_width, window_height)

\* a collision test that counts touching as colliding
CheckCollisionTouch(p, player_x, player_y, player_size) ==
    2 * Distance(p.center_x, p.center_y, player_x, player_y).len
        <= (PREDATOR_SIZE + player_size) * Scale

\* Predator.check_collision(player_x, player_y, player_size): the position
\* in length units, the size in pixels
CheckCollision(p, player_x, player_y, player_size) ==
    2 * Distance(p.center_x, p.center_y, player_x, player_y).len
        < (PREDATOR_SIZE + player_size) * Scale

--------------------------------------------------------------------------
(* A Predator driven directly: construction, then any sequence of update  *)
(* and check_collision calls on any arguments                              *)

\* the frame times tried, in milliseconds
DeltaTimes == {20, 3200}

\* the player positions tried, in tenths of a pixel: at 20, 100, 200 and
\* 300 pixels from the first place a predator is created at, and at 484,
\* 400, 300 and 200 pixels from the second; the last is where a predator
\* that set off from the first place towards the second position comes to
\* rest
PlayerPositions == {<<800, 600>>, <<1400, 1200>>, <<2200, 1800>>,
                    <<3000, 2400>>, <<629, 622>>}

\* length units of t tenths of a pixel
Tenths(t) == (t * Scale) \div 10

\* the window sizes tried, in pixels
WindowSizes == {<<WIDTH, HEIGHT>>, <<400, 300>>}

\* the places a predator is created at, in pixels
SpawnPositions == {<<60, 60>>, <<460, 360>>}

\* the offsets from the predator's centre check_collision is tried at, in
\* tenths of a pixel, and the sizes
CollisionOffsets == {<<0, 0>>, <<280, 0>>, <<279, 0>>, <<0, -281>>,
                     <<200, 200>>, <<168, 224>>}

CollisionSizes == {32}

\* the record of the last on_update call (whether the round was over when
\* it began, and the Predator method calls it made), before any
NoCalls == [by |-> "none"]

\* no AudioManager was created
NoAudio == [created |-> FALSE]

\* the seeds a Predator driven directly is explored from
Seeds == {[tape |-> t, pos |-> 0] : t \in {1, 2, 3, 4, 6}}

\* the seeds the game is explored from
GameSeeds == {[tape |-> t, pos |-> 0] : t \in {1, 2, 3, 4, 5}}

\* the variables of the game, which stay as they are while a Predator is
\* driven directly
gameVars == <<view, window, game, calls, frames>>

vars ==
    <<rng, predator, last, steps, view, window, game, calls, frames, audio>>

Init ==
    \E g \in Seeds, at \in SpawnPositions :
        LET n == NewPredator(at[1], at[2], g)
        IN  /\ rng = n.g
            /\ predator = n.p
            /\ last = [op |-> "__init__"]
            /\ steps = 0
            /\ view = "none"
            /\ window = [width |-> WIDTH, height |-> HEIGHT,
                         fullscreen |-> FALSE]
            /\ game = [created |-> FALSE]
            /\ calls = NoCalls
            /\ frames = 0
            /\ audio = NoAudio

\* every update call so far, this one included, was given the player
\* position (player_x, player_y)
StillAt(player_x, player_y) ==
    \/ last.op = "__init__"
    \/ /\ last.op = "update"
       /\ last.still
       /\ last.player_x = player_x
       /\ last.player_y = player_y

\* the update call with these arguments returns u
Updates(dt, player_x, player_y, win, u) ==
    /\ predator' = u.p
    /\ rng' = u.g
    /\ last' = [op |-> "update", before |-> predator, rng |-> rng,
                delta_time |-> dt,
                player_x |-> player_x, player_y |-> player_y,
                still |-> StillAt(player_x, player_y),
                window_width |-> win[1], window_height |-> win[2],
                distance |-> u.distance, aimed |-> u.aimed,
                steered |-> u.steered, stepped |-> u.stepped]

\* predator.update(dt, x, y, w, h)
UpdateCall ==
    /\ steps < MaxSteps
    /\ \E dt \in DeltaTimes, at \in PlayerPositions, win \in WindowSizes :
        Updates(dt, Tenths(at[1]), Tenths(at[2]), win,
                Update(predator, rng, dt, Tenths(at[1]), Tenths(at[2]),
                       win[1], win[2]))
    /\ steps' = steps + 1
    /\ UNCHANGED gameVars
    /\ UNCHANGED audio

\* predator.check_collision(x, y, size)
CheckCollisionCall ==
    /\ steps < MaxSteps
    /\ \E off \in CollisionOffsets, size \in CollisionSizes :
        LET x == predator.center_x + (off[1] * Scale) \div 10
            y == predator.center_y + (off[2] * Scale) \div 10
        IN  last' = [op |-> "check_collision", before |-> predator,
                     player_x |-> x, player_y |-> y, player_size |-> size,
                     result |-> CheckCollision(predator, x, y, size)]
    /\ steps' = steps + 1
    /\ UNCHANGED <<rng, predator>>
    /\ UNCHANGED gameVars
    /\ UNCHANGED audio

Next == UpdateCall \/ CheckCollisionCall

Spec == Init /\ [][Next]_vars

--------------------------------------------------------------------------
(* Properties of a Predator driven directly (specification Spec)           *)

Updated == last.op = "update"

Sq(a) == a * a

\* squared distance from the predator, where the call found it, to the
\* player position the call was given
LastDistSq ==
    Sq(last.before.center_x - last.player_x)
    + Sq(last.before.center_y - last.player_y)

\* squared speed of predator record p
SpeedSq(p) == Sq(p.velocity_x) + Sq(p.velocity_y)

\* the rounding allowance of the speed limit, in speed units
SpeedEps == 2

\* C1 as stated: after every update call the speed sqrt(velocity_x^2 +
\* velocity_y^2) is at most max_speed.
C1_SpeedAtMostMax == Updated => SpeedSq(predator) <= Sq(MaxSpeed)

\* C1 amended: after every update call the speed is at most max_speed plus
\* the rounding error of the normalisation (velocity / |velocity|) *
\* max_speed, which the model's arithmetic keeps below SpeedEps units.
C1_SpeedAtMostMaxEps ==
    Updated => SpeedSq(predator) <= Sq(MaxSpeed + SpeedEps)

\* C1 witness: an update call that steered and left the speed above
\* max_speed by the rounding of the limit.
C1_Witness ==
    /\ Updated
    /\ ~predator.is_hesitating
    /\ SpeedSq(predator) > Sq(MaxSpeed)

\* the centre c lies within the walls of an axis of extent bound pixels
Inside(c, bound) == HalfSize <= c /\ c <= bound * Scale - HalfSize

\* C2: after every update call the centre lies in [half_size, bound -
\* half_size] on both axes, bound being the window size passed to that call.
C2_InsideWalls ==
    Updated => /\ Inside(predator.center_x, last.window_width)
               /\ Inside(predator.center_y, last.window_height)

\* C2 witness: an update call given a window narrower than the predator's
\* position, which ends on the new right wall.
C2_Witness ==
    /\ Updated
    /\ last.before.center_x > last.window_width * Scale
    /\ predator.center_x = last.window_width * Scale - HalfSize

\* C3: an update call whose distance to the player is below 100 ends in
\* state hunting, whatever the state before.
C3_NearIsHunting ==
    (Updated /\ LastDistSq < Sq(100 * Scale)) => predator.state = "hunting"

\* C3 witness: a call closer than 100 that began in another state.
C3_Witness ==
    /\ Updated
    /\ LastDistSq < Sq(100 * Scale)
    /\ last.before.state # "hunting"
    /\ predator.state = "hunting"

\* C4: an update call that begins in hunting with the distance above 200
\* ends in intercepting, and no update call goes from hunting to patrolling.
C4_HuntingLeavesByIntercepting ==
    (Updated /\ last.before.state = "hunting") =>
        /\ LastDistSq > Sq(200 * Scale) => predator.state = "intercepting"
        /\ predator.state # "patrolling"

\* C4 witness: a call that began in hunting farther than 300 and ended in
\* intercepting.
C4_Witness ==
    /\ Updated
    /\ last.before.state = "hunting"
    /\ LastDistSq > Sq(300 * Scale)
    /\ predator.state = "intercepting"

\* C5: an update call that ends hesitating skipped the steering and halved
\* each velocity component before the position step (to the model's unit),
\* and the speed after the call is not above the speed before it.
C5_HesitatingDecays ==
    (Updated /\ predator.is_hesitating) =>
        /\ Abs(2 * last.steered.velocity_x - last.before.velocity_x) <= 1
        /\ Abs(2 * last.steered.velocity_y - last.before.velocity_y) <= 1
        /\ last.stepped.velocity_x = last.steered.velocity_x
        /\ last.stepped.velocity_y = last.steered.velocity_y
        /\ SpeedSq(predator) <= SpeedSq(last.before)

\* C5 witness: the second of two consecutive hesitating calls, of a moving
\* predator.
C5_Witness ==
    /\ Updated
    /\ last.before.is_hesitating
    /\ predator.is_hesitating
    /\ SpeedSq(last.before) > Sq(Scale)
    /\ SpeedSq(predator) < SpeedSq(last.before)

\* v is 0.8 * |w| to the model's unit
IsBounceOf(v, w) == Abs(10 * Abs(v) - 8 * Abs(w)) <= 5

\* C6 for one axis: c0, v0 the centre and velocity after the position step,
\* c, v those after the call, bound the window's extent in pixels
BouncedOff(c0, v0, c, v, bound) ==
    /\ c0 < HalfSize =>
         c = HalfSize /\ v >= 0 /\ IsBounceOf(v, v0)
    /\ c0 > bound * Scale - HalfSize =>
         c = bound * Scale - HalfSize /\ v <= 0 /\ IsBounceOf(v, v0)

\* C6: when the position step leaves the centre beyond a wall on an axis the
\* call ends with the centre on that wall and that axis's velocity 0.8 times
\* its absolute value, pointing away from the wall; an axis that stays
\* strictly inside keeps its velocity.
C6_WallBounce ==
    Updated =>
        /\ BouncedOff(last.stepped.center_x, last.stepped.velocity_x,
                      predator.center_x, predator.velocity_x,
                      last.window_width)
        /\ BouncedOff(last.stepped.center_y, last.stepped.velocity_y,
                      predator.center_y, predator.velocity_y,
                      last.window_height)
        /\ (/\ last.stepped.center_x > HalfSize
            /\ last.stepped.center_x < last.window_width * Scale - HalfSize)
           => predator.velocity_x = last.stepped.velocity_x
        /\ (/\ last.stepped.center_y > HalfSize
            /\ last.stepped.center_y < last.window_height * Scale - HalfSize)
           => predator.velocity_y = last.stepped.velocity_y

\* C6 witness: a predator moving left across the left wall ends on it moving
\* right, its other axis strictly inside and moving.
C6_Witness ==
    /\ Updated
    /\ last.stepped.center_x < HalfSize
    /\ last.stepped.velocity_x < 0
    /\ predator.center_x = HalfSize
    /\ predator.velocity_x > 0
    /\ last.stepped.center_y > HalfSize
    /\ last.stepped.center_y < last.window_height * Scale - HalfSize
    /\ predator.velocity_y # 0

\* C7: check_collision answers true exactly when the distance between the
\* centres is strictly below (predator size + target size) / 2, and leaves
\* the predator as it was.
C7_CollisionIffCloser ==
    last.op = "check_collision" =>
        /\ last.result <=>
             4 * LastDistSq < Sq((PREDATOR_SIZE + last.player_size) * Scale)
        /\ predator = last.before

\* C7 witness: a check at exactly the limit distance, off the axes, which
\* answers false.
C7_Witness ==
    /\ last.op = "check_collision"
    /\ 4 * LastDistSq = Sq((PREDATOR_SIZE + last.player_size) * Scale)
    /\ last.before.center_x # last.player_x
    /\ last.before.center_y # last.player_y
    /\ ~last.result

--------------------------------------------------------------------------
(* class Fruit and class GameView *)

\* random.choice over n items for the unit draw u: the index chosen
Choice(n, u) == Min(n - 1, (n * u) \div UnitDen)

\* Fruit.check_collision(player_x, player_y, player_size): positions in
\* length units, the size in pixels
FruitCheckCollision(f, player_x, player_y, player_size) ==
    /\ 2 * Abs(f.center_x - player_x) < (FRUIT_SIZE + player_size) * Scale
    /\ 2 * Abs(f.center_y - player_y) < (FRUIT_SIZE + player_size) * Scale

\* GameView.__init__: where player 1 and player 2 start, in pixels
Player1Start == <<WIDTH \div 2 - 50, HEIGHT \div 2>>

Player2Start == <<WIDTH \div 2 + 50, HEIGHT \div 2>>

RECURSIVE SpawnPosition(_)
\* GameView.__init__: a predator's position, drawn again while it is too
\* close to player 1
SpawnPosition(g) ==
    LET x == RandInt(50, WIDTH - 50, Unit(g))
        g1 == Advance(g)
        y == RandInt(50, HEIGHT - 50, Unit(g1))
        g2 == Advance(g1)
    IN  IF Abs(x - Player1Start[1]) < 100 /\ Abs(y - Player1Start[2]) < 100
        THEN SpawnPosition(g2)
        ELSE [x |-> x, y |-> y, g |-> g2]

\* GameView.__init__: Predator(x, y) at the position drawn
PredatorAt(at) == NewPredator(at.x, at.y, at.g)

\* list.append, for a list built front to back: item goes before rest
Append1(item, rest) == [list |-> <<item>> \o rest.list, g |-> rest.g]

RECURSIVE SpawnPredators(_, _)
\* GameView.__init__: predator new, then the n - 1 after it
SpawnedThen(n, new) == Append1(new.p, SpawnPredators(n - 1, new.g))

\* GameView.__init__: the list of n predators
SpawnPredators(n, g) ==
    IF n = 0 THEN [list |-> <<>>, g |-> g]
    ELSE SpawnedThen(n, PredatorAt(SpawnPosition(g)))

RECURSIVE SpawnFruits(_, _)
\* GameView.spawn_fruits: the list of n fruits
SpawnFruits(n, g) ==
    IF n = 0 THEN [list |-> <<>>, g |-> g]
    ELSE Append1([center_x |-> RandInt(FRUIT_SIZE, WIDTH - FRUIT_SIZE,
                                       Unit(Advance(g))) * Scale,
                  center_y |-> RandInt(FRUIT_SIZE, HEIGHT - FRUIT_SIZE,
                                       Unit(Advance(Advance(g)))) * Scale,
                  color |-> Choice(NUM_COLORS, Unit(g))],
                 SpawnFruits(n - 1, Advance(Advance(Advance(g)))))

\* GameView.__init__: the view with predators ps and fruits fs
ViewOf(num_players, ps, fs) ==
        [v |-> [created |-> TRUE,
                num_players |-> num_players,
                game_over |-> FALSE,
                score |-> 0,
                fruits_collected |-> 0,
                player1 |-> [center_x |-> Player1Start[1] * Scale,
                             center_y |-> Player1Start[2] * Scale],
                player1_keys |-> {},
                player2 |-> [center_x |-> Player2Start[1] * Scale,
                             center_y |-> Player2Start[2] * Scale],
                player2_keys |-> {},
                predators |-> ps.list,
                fruits |-> fs.list],
         g |-> fs.g]

\* GameView.__init__: the fruits spawned after the predators ps
WithFruits(num_players, ps) ==
    ViewOf(num_players, ps, SpawnFruits(NUM_FRUITS, ps.g))

\* GameView.__init__(num_players), drawing from generator g
NewGameView(num_players, g) ==
    WithFruits(num_players, SpawnPredators(NUM_PREDATORS, g))

\* max(lo, min(hi, a))
Clamp(lo, hi, a) == Max(lo, Min(hi, a))

\* GameView.update_player(player, keys, delta_time) in window win
UpdatePlayer(player, keys, dt, win) ==
    LET right == IF "right" \in keys THEN 1 ELSE 0
        left == IF "left" \in keys THEN 1 ELSE 0
        up == IF "up" \in keys THEN 1 ELSE 0
        down == IF "down" \in keys THEN 1 ELSE 0
        dx == RDiv((right - left) * MOVE_SPEED * Scale * dt, 1000)
        dy == RDiv((up - down) * MOVE_SPEED * Scale * dt, 1000)
        half == (PLAYER_SIZE * Scale) \div 2
    IN  [center_x |-> Clamp(half, win.width * Scale - half,
                            player.center_x + dx),
         center_y |-> Clamp(half, win.height * Scale - half,
                            player.center_y + dy)]

\* on_update: the players moved
MovePlayers(v, dt, win) ==
    [v EXCEPT !.player1 = UpdatePlayer(@, v.player1_keys, dt, win),
              !.player2 = IF v.num_players = 2
                          THEN UpdatePlayer(@, v.player2_keys, dt, win)
                          ELSE @]

\* squared distance between two objects with a centre
DistSq(a, b) == Sq(a.center_x - b.center_x) + Sq(a.center_y - b.center_y)

\* a chase of player 1 whatever the distances
ClosestPlayerFirst(v, p) == v.player1

\* on_update: the player predator p chases: player 1, or player 2 when it
\* is strictly closer (the roots the program compares order as the squares)
ClosestPlayer(v, p) ==
    IF v.num_players = 2 /\ DistSq(p, v.player2) < DistSq(p, v.player1)
    THEN v.player2 ELSE v.player1

\* on_update: predator.update(delta_time, target_x, target_y,
\* self.window.width, self.window.height), the target being player `to'
UpdateToward(p, g, dt, to, win) ==
    Update(p, g, dt, to.center_x, to.center_y, win.width, win.height)

\* the calls of rest, after call
Logged(call, rest) == [rest EXCEPT !.calls = <<call>> \o @]

RECURSIVE UpdatePredators(_, _, _, _, _)
\* on_update: the first predator of order has been updated towards player
\* `to', with outcome u; the others follow
UpdatedThen(order, v, dt, win, to, u) ==
    Logged([op |-> "update", predator |-> Head(order),
            player_x |-> to.center_x, player_y |-> to.center_y],
           UpdatePredators(Tail(order),
                           [v EXCEPT !.predators[Head(order)] = u.p],
                           u.g, dt, win))

\* on_update: the predators of view v named by order updated one after the
\* other, each towards its closest player; the result holds the view, the
\* generator and the calls made
UpdatePredators(order, v, g, dt, win) ==
    IF order = <<>> THEN [v |-> v, g |-> g, calls |-> <<>>]
    ELSE UpdatedThen(order, v, dt, win,
            ClosestPlayer(v, v.predators[Head(order)]),
            UpdateToward(v.predators[Head(order)], g, dt,
                         ClosestPlayer(v, v.predators[Head(order)]), win))

\* the order in which the for loop visits a list of n items
ListOrder(n) == [i \in 1..n |-> i]

\* the items of list l at the indices where keep holds, in order
RECURSIVE Select(_, _, _)
Select(l, keep, i) ==
    IF i > Len(l) THEN <<>>
    ELSE (IF keep[i] THEN <<l[i]>> ELSE <<>>) \o Select(l, keep, i + 1)

\* a collection that counts a fruit for each player that touches it
CollectFruitsPerPlayer(v) ==
    LET by1 == {i \in 1..Len(v.fruits) :
                  FruitCheckCollision(v.fruits[i], v.player1.center_x,
                                      v.player1.center_y, PLAYER_SIZE)}
        by2 == IF v.num_players = 2
               THEN {i \in 1..Len(v.fruits) :
                       FruitCheckCollision(v.fruits[i],
                              v.player2.center_x, v.player2.center_y,
                              PLAYER_SIZE)}
               ELSE {}
        n == Cardinality(by1) + Cardinality(by2)
    IN  [v EXCEPT !.score = @ + 10 * n,
                  !.fruits_collected = @ + n,
                  !.fruits = Select(@, [i \in 1..Len(@) |->
                                          i \notin by1 \cup by2], 1)]

\* on_update: the fruits the players touch are counted once and removed
CollectFruits(v) ==
    LET by1 == {i \in 1..Len(v.fruits) :
                  FruitCheckCollision(v.fruits[i], v.player1.center_x,
                                      v.player1.center_y, PLAYER_SIZE)}
        by2 == IF v.num_players = 2
               THEN {i \in 1..Len(v.fruits) :
                       /\ FruitCheckCollision(v.fruits[i],
                              v.player2.center_x, v.player2.center_y,
                              PLAYER_SIZE)
                       /\ i \notin by1}
               ELSE {}
        n == Cardinality(by1) + Cardinality(by2)
    IN  [v EXCEPT !.score = @ + 10 * n,
                  !.fruits_collected = @ + n,
                  !.fruits = Select(@, [i \in 1..Len(@) |->
                                          i \notin by1 \cup by2], 1)]

RECURSIVE CheckPredators(_, _, _, _)
\* on_update: the predators checked against one player, from the i-th on,
\* up to the first that collides
CheckPredators(ps, i, player, which) ==
    IF i > Len(ps) THEN [hit |-> FALSE, calls |-> <<>>]
    ELSE Logged([op |-> "check_collision", predator |-> i, player |-> which],
                IF CheckCollision(ps[i], player.center_x, player.center_y,
                                  PLAYER_SIZE)
                THEN [hit |-> TRUE, calls |-> <<>>]
                ELSE CheckPredators(ps, i + 1, player, which))

\* on_update: game_over after the checks c1 against player 1 and c2 against
\* player 2
Collided(v, c1, c2) ==
    [v |-> [v EXCEPT !.game_over = @ \/ c1.hit \/ c2.hit],
     calls |-> c1.calls \o c2.calls]

\* on_update: the predators checked against player 1, then player 2
Collide(v) ==
    Collided(v, CheckPredators(v.predators, 1, v.player1, 1),
                IF v.num_players = 2
                THEN CheckPredators(v.predators, 1, v.player2, 2)
                ELSE [hit |-> FALSE, calls |-> <<>>])

\* on_update: the outcome u of the predators' updates and c of the checks
Frame(u, c) == [v |-> c.v, g |-> u.g, calls |-> u.calls \o c.calls]

\* on_update, after the predators' updates, of outcome u
CollectAndCollide(u) == Frame(u, Collide(CollectFruits(u.v)))

\* an on_update that checks the collisions before it updates the predators
OnUpdateCheckFirst(v, g, dt, win) ==
    IF v.game_over \/ Len(v.fruits) = 0
    THEN [v |-> v, g |-> g, calls |-> <<>>]
    ELSE LET c == Collide(CollectFruits(MovePlayers(v, dt, win)))
             u == UpdatePredators(ListOrder(Len(v.predators)), c.v, g, dt,
                                  win)
         IN  [v |-> u.v, g |-> u.g, calls |-> c.calls \o u.calls]

\* an on_update that goes on when the round is over
OnUpdateNoStop(v, g, dt, win) ==
    CollectAndCollide(
        UpdatePredators(ListOrder(Len(v.predators)),
                        MovePlayers(v, dt, win), g, dt, win))

\* GameView.on_update(delta_time) on view object v in window win
OnUpdateOf(v, g, dt, win) ==
    IF v.game_over \/ Len(v.fruits) = 0
    THEN [v |-> v, g |-> g, calls |-> <<>>]
    ELSE CollectAndCollide(
            UpdatePredators(ListOrder(Len(v.predators)),
                            MovePlayers(v, dt, win), g, dt, win))

\* GameView.on_key_press(symbol, modifiers): the keys held after it
OnKeyPressOf(v, symbol) ==
    LET k1 == IF symbol = "A" THEN v.player1_keys \cup {"left"}
              ELSE IF symbol = "D" THEN v.player1_keys \cup {"right"}
              ELSE IF symbol = "W" THEN v.player1_keys \cup {"up"}
              ELSE IF symbol = "S" THEN v.player1_keys \cup {"down"}
              ELSE v.player1_keys
        k2 == IF v.num_players # 2 THEN v.player2_keys
              ELSE IF symbol = "LEFT" THEN v.player2_keys \cup {"left"}
              ELSE IF symbol = "RIGHT" THEN v.player2_keys \cup {"right"}
              ELSE IF symbol = "UP" THEN v.player2_keys \cup {"up"}
              ELSE IF symbol = "DOWN" THEN v.player2_keys \cup {"down"}
              ELSE v.player2_keys
    IN  [v EXCEPT !.player1_keys = k1, !.player2_keys = k2]

\* GameView.on_key_release(symbol, modifiers): the keys held after it
OnKeyReleaseOf(v, symbol) ==
    LET k1 == IF symbol = "A" THEN v.player1_keys \ {"left"}
              ELSE IF symbol = "D" THEN v.player1_keys \ {"right"}
              ELSE IF symbol = "W" THEN v.player1_keys \ {"up"}
              ELSE IF symbol = "S" THEN v.player1_keys \ {"down"}
              ELSE v.player1_keys
        k2 == IF v.num_players # 2 THEN v.player2_keys
              ELSE IF symbol = "LEFT" THEN v.player2_keys \ {"left"}
              ELSE IF symbol = "RIGHT" THEN v.player2_keys \ {"right"}
              ELSE IF symbol = "UP" THEN v.player2_keys \ {"up"}
              ELSE IF symbol = "DOWN" THEN v.player2_keys \ {"down"}
              ELSE v.player2_keys
    IN  [v EXCEPT !.player1_keys = k1, !.player2_keys = k2]

--------------------------------------------------------------------------
(* The program: main() shows the menu; a click on a menu button creates a  *)
(* GameView, which then receives the window's events                       *)

\* the frame times tried, in milliseconds
FrameTimes == {20, 3200}

\* the keys tried
KeysTried == {"D", "LEFT", "F11", "ESCAPE"}

\* the size of the window while it is full screen, in pixels
ScreenSize == <<1280, 720>>

\* main(): the window is created and shows the menu
GameInit ==
    /\ rng \in GameSeeds
    /\ view = "menu"
    /\ window = [width |-> WIDTH, height |-> HEIGHT, fullscreen |-> FALSE]
    /\ game = [created |-> FALSE]
    /\ calls = NoCalls
    /\ frames = 0
    /\ predator = [created |-> FALSE]
    /\ last = [op |-> "none"]
    /\ steps = 0
    /\ audio = NoAudio

\* the window shows the new view
Shows(new) == game' = new.v /\ rng' = new.g

\* MenuView.on_mouse_press over a button: its on_click shows a new GameView
StartGame ==
    /\ view = "menu"
    /\ \E n \in {1, 2} : Shows(NewGameView(n, rng))
    /\ view' = "game"
    /\ calls' = NoCalls
    /\ UNCHANGED <<window, frames, predator, last, steps, audio>>

\* the on_update call returns u
Returns(u) ==
    /\ game' = u.v
    /\ rng' = u.g
    /\ calls' = [by |-> "on_update",
                 over |-> (game.game_over \/ Len(game.fruits) = 0),
                 log |-> u.calls]

\* GameView.on_update(delta_time)
OnUpdate ==
    /\ view = "game"
    /\ frames < MaxFrames
    /\ \E dt \in FrameTimes : Returns(OnUpdateOf(game, rng, dt, window))
    /\ frames' = frames + 1
    /\ UNCHANGED <<view, window, predator, last, steps, audio>>

\* GameView.on_key_press(symbol, modifiers)
OnKeyPress ==
    /\ view = "game"
    /\ \E symbol \in KeysTried :
        /\ game' = OnKeyPressOf(game, symbol)
        /\ window' = IF symbol # "F11" THEN window
                     ELSE IF window.fullscreen
                     THEN [width |-> WIDTH, height |-> HEIGHT,
                           fullscreen |-> FALSE]
                     ELSE [width |-> ScreenSize[1], height |-> ScreenSize[2],
                           fullscreen |-> TRUE]
        /\ view' = IF symbol = "ESCAPE" THEN "menu" ELSE view
    /\ UNCHANGED <<rng, calls, frames, predator, last, steps, audio>>

\* GameView.on_key_release(symbol, modifiers)
OnKeyRelease ==
    /\ view = "game"
    /\ \E symbol \in KeysTried : game' = OnKeyReleaseOf(game, symbol)
    /\ UNCHANGED <<rng, view, window, calls, frames, predator, last, steps, audio>>

GameNext == StartGame \/ OnUpdate \/ OnKeyPress \/ OnKeyRelease

GameSpec == GameInit /\ [][GameNext]_vars

--------------------------------------------------------------------------
(* The predator driven through update calls with frames of at most one     *)
(* second (specification ShortFramesSpec).  The game calls update in every *)
(* frame of a round, so that the calls go on: weak fairness.  The calls    *)
(* are counted up to MaxShortSteps, and go on after that for as long as    *)
(* the predator is hesitating.                                             *)

\* the frame times, in milliseconds: 0 < dt <= 1 second
ShortFrames == {300, 1000}

\* where the player stands, in tenths of a pixel
ShortPlayer == <<2200, 1800>>

\* whether another update call is made
ShortGoesOn == steps < MaxShortSteps \/ predator.is_hesitating

ShortUpdateCall ==
    /\ ShortGoesOn
    /\ \E dt \in ShortFrames :
        Updates(dt, Tenths(ShortPlayer[1]), Tenths(ShortPlayer[2]),
                <<WIDTH, HEIGHT>>,
                Update(predator, rng, dt, Tenths(ShortPlayer[1]),
                       Tenths(ShortPlayer[2]), WIDTH, HEIGHT))
    /\ steps' = Min(steps + 1, MaxShortSteps)
    /\ UNCHANGED gameVars
    /\ UNCHANGED audio

\* Weak fairness of ShortUpdateCall, WF_vars(ShortUpdateCall), with its
\* enabledness written out: the call changes the predator's timers, so a
\* changing step is possible exactly when ShortGoesOn holds.
ShortFramesSpec ==
    /\ Init /\ [][ShortUpdateCall]_vars
    /\ ([]<>~ShortGoesOn \/ []<><<ShortUpdateCall>>_vars)

--------------------------------------------------------------------------
(* The game with frames short enough for the players to walk to a fruit    *)
(* (specification FruitSpec): last records the last on_update call.        *)

\* the seeds the fruits are explored from: the fruits of tape 7 all lie
\* between the two players, those of tape 8 lie there and at three other
\* places
FruitSeeds == {[tape |-> t, pos |-> 0] : t \in {7, 8}}

\* the frame times, in milliseconds
FruitFrameTimes == {100, 3200}

FruitInit ==
    /\ rng \in FruitSeeds
    /\ view = "menu"
    /\ window = [width |-> WIDTH, height |-> HEIGHT, fullscreen |-> FALSE]
    /\ game = [created |-> FALSE]
    /\ calls = NoCalls
    /\ frames = 0
    /\ predator = [created |-> FALSE]
    /\ last = [op |-> "none"]
    /\ steps = 0
    /\ audio = NoAudio

\* GameView.on_update(delta_time)
FruitOnUpdate ==
    /\ view = "game"
    /\ frames < MaxFruitFrames
    /\ \E dt \in FruitFrameTimes :
        /\ Returns(OnUpdateOf(game, rng, dt, window))
        /\ last' = [op |-> "on_update", before |-> game, delta_time |-> dt]
    /\ frames' = frames + 1
    /\ UNCHANGED <<view, window, predator, steps, audio>>

FruitNext == StartGame \/ FruitOnUpdate \/ OnKeyPress \/ OnKeyRelease

FruitSpec == FruitInit /\ [][FruitNext]_vars

--------------------------------------------------------------------------
(* AudioManager (audio_manager.py), specification AudioSpec.  Volumes are  *)
(* in hundredths, an effective volume (a product of two) in 1/10000.  A    *)
(* player returned by arcade.play_sound is a positive number, None is 0;   *)
(* field sounding is the set of players arcade is playing, and played the  *)
(* number of players made so far.                                          *)

\* AudioManager.__init__; music is whether _load_sounds found and loaded
\* the background music file
NewAudioManager(music) ==
    [created |-> TRUE, master_volume |-> 70, effects_volume |-> 80,
     music_volume |-> 50, muted |-> FALSE, music |-> music,
     current_music |-> 0, background_music_playing |-> FALSE,
     sounding |-> {}, played |-> 0]

\* AudioManager._get_effective_volume(sound_type)
GetEffectiveVolume(a, sound_type) ==
    IF a.muted THEN 0
    ELSE a.master_volume * (IF sound_type = "effect" THEN a.effects_volume
                                                      ELSE a.music_volume)

\* start_background_music: self.current_music = arcade.play_sound(...) and
\* the flag; when play_sound raises, the except clause leaves both alone
PlayMusic(a, outcome) ==
    IF outcome = "raises" THEN a
    ELSE [a EXCEPT !.played = @ + 1,
                   !.sounding = @ \cup {a.played + 1},
                   !.current_music = a.played + 1,
                   !.background_music_playing = TRUE]

\* AudioManager.start_background_music(); outcome is what arcade.play_sound
\* does if it is called
StartBackgroundMusic(a, outcome) ==
    IF a.music /\ ~a.background_music_playing
    THEN IF GetEffectiveVolume(a, "music") > 0 THEN PlayMusic(a, outcome)
                                                ELSE a
    ELSE a

\* AudioManager.stop_background_music()
StopBackgroundMusic(a) ==
    IF a.current_music # 0
    THEN [a EXCEPT !.sounding = @ \ {a.current_music},
                   !.current_music = 0,
                   !.background_music_playing = FALSE]
    ELSE a

\* max(0.0, min(1.0, volume))
ClampVolume(volume) == Max(0, Min(100, volume))

\* AudioManager.set_master_volume(volume); _update_music_volume changes
\* nothing
SetMasterVolume(a, volume) ==
    [a EXCEPT !.master_volume = ClampVolume(volume)]

\* AudioManager.set_effects_volume(volume)
SetEffectsVolume(a, volume) ==
    [a EXCEPT !.effects_volume = ClampVolume(volume)]

\* AudioManager.set_music_volume(volume)
SetMusicVolume(a, volume) ==
    [a EXCEPT !.music_volume = ClampVolume(volume)]

\* toggle_mute, after self.muted = not self.muted, with the muting branch
\* left without its stop_background_music call
ToggleMuteKeepsPlaying(a, outcome) ==
    IF a.muted THEN a
    ELSE IF ~a.background_music_playing THEN StartBackgroundMusic(a, outcome)
    ELSE a

\* toggle_mute, after self.muted = not self.muted
ToggleMuteBranch(a, outcome) ==
    IF a.muted THEN StopBackgroundMusic(a)
    ELSE IF ~a.background_music_playing THEN StartBackgroundMusic(a, outcome)
    ELSE a

\* AudioManager.toggle_mute()
ToggleMute(a, outcome) == ToggleMuteBranch([a EXCEPT !.muted = ~@], outcome)

\* AudioManager.cleanup(): stop_all_sounds
Cleanup(a) == StopBackgroundMusic(a)

\* what a call of arcade.play_sound may do
PlayOutcomes == {"player", "raises"}

\* the volumes the setters are called with, in hundredths
VolumesTried == {-50, 0, 30, 150}

AudioInit ==
    /\ \E music \in BOOLEAN : audio = NewAudioManager(music)
    /\ last = [op |-> "__init__", before |-> NoAudio]
    /\ rng = [tape |-> 1, pos |-> 0]
    /\ predator = [created |-> FALSE]
    /\ steps = 0
    /\ view = "none"
    /\ window = [width |-> WIDTH, height |-> HEIGHT, fullscreen |-> FALSE]
    /\ game = [created |-> FALSE]
    /\ calls = NoCalls
    /\ frames = 0

\* the AudioManager method op was called and left the manager as new
Called(op, new) ==
    /\ audio' = new
    /\ last' = [op |-> op, before |-> audio,
                earlier |-> [op |-> last.op, before |-> last.before]]
    /\ UNCHANGED <<rng, predator, steps, view, window, game, calls, frames>>

ToggleMuteCall ==
    /\ audio.played < MaxPlays
    /\ \E outcome \in PlayOutcomes :
        Called("toggle_mute", ToggleMute(audio, outcome))

StartBackgroundMusicCall ==
    /\ audio.played < MaxPlays
    /\ \E outcome \in PlayOutcomes :
        Called("start_background_music", StartBackgroundMusic(audio, outcome))

StopBackgroundMusicCall ==
    Called("stop_background_music", StopBackgroundMusic(audio))

SetMasterVolumeCall ==
    \E volume \in VolumesTried :
        Called("set_master_volume", SetMasterVolume(audio, volume))

SetEffectsVolumeCall ==
    \E volume \in VolumesTried :
        Called("set_effects_volume", SetEffectsVolume(audio, volume))

SetMusicVolumeCall ==
    \E volume \in VolumesTried :
        Called("set_music_volume", SetMusicVolume(audio, volume))

CleanupCall == Called("cleanup", Cleanup(audio))

AudioNext ==
    \/ ToggleMuteCall
    \/ StartBackgroundMusicCall
    \/ StopBackgroundMusicCall
    \/ SetMasterVolumeCall
    \/ SetEffectsVolumeCall
    \/ SetMusicVolumeCall
    \/ CleanupCall

AudioSpec == AudioInit /\ [][AudioNext]_vars

--------------------------------------------------------------------------
(* Properties of the predators in the game (specification GameSpec)        *)

\* the step is an on_update call
IsFrame == frames' = frames + 1

\* the predators of the view
Predators == 1..Len(game.predators)

\* C8 as stated: a predator's trajectory is a function of its initial
\* state, its own stream of draws and the per-call inputs (delta_time,
\* target, bounds), its random source being its own stream and not a
\* generator shared with other code.  Two predators of the view that are in
\* the same state when a frame begins receive the same delta_time, target
\* and bounds in it, so they are in the same state when it ends.
C8_SameStateSameInputsSameTrajectory ==
    [][IsFrame =>
         \A i, j \in Predators :
             game.predators[i] = game.predators[j]
                 => game'.predators[i] = game'.predators[j]]_vars

\* the orders in which n predators can be updated
Orders(n) ==
    {o \in [1..n -> 1..n] : \A a, b \in 1..n : o[a] = o[b] => a = b}

\* the predators after the updates of a frame of dt milliseconds made in
\* this order
UpdatedInOrder(order, dt) ==
    UpdatePredators(order, MovePlayers(game, dt, window), rng, dt,
                    window).v.predators

\* C9 as stated: the predators share no mutable state; within a frame,
\* updating them in any order leaves every predator in the same state as
\* the order of the list does.
C9_AnyOrderSameStates ==
    (view = "game" /\ ~game.game_over /\ Len(game.fruits) > 0) =>
        \A dt \in FrameTimes, order \in Orders(Len(game.predators)) :
            UpdatedInOrder(order, dt)
                = UpdatedInOrder(ListOrder(Len(game.predators)), dt)

\* the places in the log of the update calls on predator i
UpdatesOf(log, i) ==
    {k \in 1..Len(log) : log[k].op = "update" /\ log[k].predator = i}

\* the log holds one update call for each of n predators, and every update
\* call before any check_collision call
UpdatedOnceThenChecked(log, n) ==
    /\ \A i \in 1..n : Cardinality(UpdatesOf(log, i)) = 1
    /\ \A k, m \in 1..Len(log) :
         (log[k].op = "update" /\ log[m].op = "check_collision") => k < m

\* C10 as stated: in each frame on_update calls update on every predator
\* exactly once, and all the update calls come before any check_collision
\* call.
C10_EveryFrameUpdatesAll ==
    calls.by = "on_update"
        => UpdatedOnceThenChecked(calls.log, Len(game.predators))

\* C10 amended: in each frame that begins with the round active (the game
\* not over and a fruit left) on_update calls update on every predator
\* exactly once, and all the update calls come before any check_collision
\* call; a frame that begins with the round over calls neither.
C10_ActiveFrameUpdatesAll ==
    calls.by = "on_update" =>
        IF calls.over THEN calls.log = <<>>
        ELSE UpdatedOnceThenChecked(calls.log, Len(game.predators))

\* C10 witness: a frame of a two-player round that updated every predator,
\* then checked both players, the check of player 2 finding a collision
\* that ends the round.
C10_Witness ==
    /\ calls.by = "on_update"
    /\ ~calls.over
    /\ game.num_players = 2
    /\ game.game_over
    /\ Len(calls.log) > Len(game.predators) + 1
    /\ calls.log[Len(calls.log)].op = "check_collision"
    /\ calls.log[Len(calls.log)].player = 2

\* player k of view v
PlayerOf(v, k) == IF k = 1 THEN v.player1 ELSE v.player2

\* predator p is outside the exclusion zone of GameView.__init__ around
\* the player: not within 100 pixels of it on both axes
OutsideZone(p, player) ==
    ~(/\ Abs(p.center_x - player.center_x) < 100 * Scale
      /\ Abs(p.center_y - player.center_y) < 100 * Scale)

\* C11 as stated: when a round has been created, for 1 or 2 players, and
\* no frame has run yet, every predator is outside the exclusion zone
\* around every player, and check_collision is false for every predator
\* and player.
C11_SpawnedClearOfPlayers ==
    (game.created /\ calls = NoCalls) =>
        \A i \in Predators, k \in 1..game.num_players :
            /\ OutsideZone(game.predators[i], PlayerOf(game, k))
            /\ ~CheckCollision(game.predators[i],
                               PlayerOf(game, k).center_x,
                               PlayerOf(game, k).center_y, PLAYER_SIZE)

\* the update call the log holds for predator i
UpdateOf(log, i) == log[CHOOSE k \in UpdatesOf(log, i) : TRUE]

\* the step is an on_update call that begins with the round active
IsActiveFrame == IsFrame /\ ~game.game_over /\ Len(game.fruits) > 0

\* player k is nearest to predator p among the players of view v: no
\* player is strictly nearer, and none of a lower number is as near
IsNearest(v, p, k) ==
    \A m \in 1..v.num_players :
        /\ DistSq(p, PlayerOf(v, k)) <= DistSq(p, PlayerOf(v, m))
        /\ m < k => DistSq(p, PlayerOf(v, k)) < DistSq(p, PlayerOf(v, m))

\* C12: in every frame of an active round each predator's update receives
\* the position, after the players' movement in that frame, of the player
\* nearest to where the predator is before its update: player 1 when there
\* is one player, and player 1 when the two players are equally near.
C12_UpdateTowardNearest ==
    [][IsActiveFrame =>
         \A i \in Predators :
             \E k \in 1..game.num_players :
                 /\ IsNearest(game', game.predators[i], k)
                 /\ UpdateOf(calls'.log, i).player_x
                        = PlayerOf(game', k).center_x
                 /\ UpdateOf(calls'.log, i).player_y
                        = PlayerOf(game', k).center_y]_vars

\* C12 witness: a frame of a two-player round in which one predator was
\* sent after player 2 and another after player 1.
C12_Witness ==
    /\ calls.by = "on_update"
    /\ ~calls.over
    /\ game.num_players = 2
    /\ game.player1 # game.player2
    /\ \E i, j \in Predators :
         /\ UpdateOf(calls.log, i).player_x = game.player2.center_x
         /\ UpdateOf(calls.log, i).player_y = game.player2.center_y
         /\ UpdateOf(calls.log, j).player_x = game.player1.center_x
         /\ UpdateOf(calls.log, j).player_y = game.player1.center_y

--------------------------------------------------------------------------
(* Properties of the state, the hesitation and the perception of a         *)
(* Predator driven directly (specification Spec)                           *)

\* the distance of the last update call is at least lo and at most hi
\* pixels
DistWithin(lo, hi) ==
    Sq(lo * Scale) <= LastDistSq /\ LastDistSq <= Sq(hi * Scale)

\* C13: an update call in which no transition condition applies (the
\* distance in [100, 200], or in (200, 300] with a state other than
\* hunting) ends in the state it began in; a patrolling predator stays
\* patrolling at every distance of 100 or more, an intercepting one stays
\* intercepting at every distance in [100, 300].
C13_StateKeptBetweenThresholds ==
    Updated =>
        /\ DistWithin(100, 200) => predator.state = last.before.state
        /\ (DistWithin(200, 300) /\ last.before.state # "hunting")
              => predator.state = last.before.state
        /\ (LastDistSq >= Sq(100 * Scale)
            /\ last.before.state = "patrolling")
              => predator.state = "patrolling"
        /\ (DistWithin(100, 300) /\ last.before.state = "intercepting")
              => predator.state = "intercepting"

\* C13 witness: an intercepting predator called at exactly 300 pixels from
\* the player, which stays intercepting.
C13_Witness ==
    /\ Updated
    /\ last.before.state = "intercepting"
    /\ LastDistSq = Sq(300 * Scale)
    /\ predator.state = "intercepting"

\* hesitation_timer of the last update call after delta_time was added
TimerAfterDt == last.before.hesitation_timer + last.delta_time

\* the entry threshold the last update call drew: its first draw, from
\* [3.0, 8.0] seconds
EntryThreshold == Uniform(3000, 8000, Unit(last.rng))

\* the exit threshold the last update call drew when it came to the exit
\* rule hesitating: its second draw, from [0.2, 0.8] seconds
ExitThreshold == Uniform(200, 800, Unit(Advance(last.rng)))

\* C14 as stated: an update call that begins with the predator hesitating
\* and whose hesitation_timer, after adding dt, exceeds the exit threshold
\* drawn from [0.2, 0.8] (so whenever it exceeds 0.8) ends with the
\* predator not hesitating and hesitation_timer 0.
C14_HesitationExits ==
    (/\ Updated
     /\ last.before.is_hesitating
     /\ TimerAfterDt > ExitThreshold)
        => ~predator.is_hesitating /\ predator.hesitation_timer = 0

\* C15 as stated: the entry rule enters hesitation and resets
\* hesitation_timer only in a call that begins not hesitating with the
\* timer, after adding dt, above the threshold drawn from [3.0, 8.0]: such
\* a call ends hesitating with the timer 0 (no exit in the same call), a
\* call that begins not hesitating with the timer at or below the threshold
\* (always at 3.0 or less, never above 8.0) does not enter, and a call that
\* begins hesitating has its timer left to the exit rule, so that it still
\* holds the time added when the call ends hesitating.
C15_HesitationEntry ==
    Updated =>
        /\ (~last.before.is_hesitating /\ TimerAfterDt > EntryThreshold)
              => predator.is_hesitating /\ predator.hesitation_timer = 0
        /\ (~last.before.is_hesitating /\ TimerAfterDt <= EntryThreshold)
              => /\ ~predator.is_hesitating
                 /\ predator.hesitation_timer = TimerAfterDt
        /\ (~last.before.is_hesitating /\ TimerAfterDt <= 3000)
              => ~predator.is_hesitating
        /\ (~last.before.is_hesitating /\ TimerAfterDt > 8000)
              => predator.is_hesitating /\ predator.hesitation_timer = 0
        /\ (last.before.is_hesitating /\ predator.is_hesitating)
              => predator.hesitation_timer = TimerAfterDt

\* the last update call perceived: reaction_timer, after delta_time was
\* added, had reached reaction_delay
Perceived ==
    last.before.reaction_timer + last.delta_time
        >= last.before.reaction_delay

\* v, in units per second, is the way d divided by the predator's
\* reaction_delay, to the nearest unit
IsOverDelay(v, d) ==
    2 * Abs(v * last.before.reaction_delay - d * 1000)
        <= last.before.reaction_delay

\* C16: the last known player position and the estimated player velocity
\* change only in an update call whose reaction_timer, after adding dt,
\* has reached reaction_delay; there the estimate becomes (player position
\* - previous last known position) / reaction_delay, the last known
\* position becomes the player position and reaction_timer becomes 0; any
\* other call leaves both as they were.
C16_PerceptionLag ==
    Updated =>
        IF Perceived
        THEN /\ IsOverDelay(predator.player_velocity_x,
                            last.player_x - last.before.last_player_x)
             /\ IsOverDelay(predator.player_velocity_y,
                            last.player_y - last.before.last_player_y)
             /\ predator.last_player_x = last.player_x
             /\ predator.last_player_y = last.player_y
             /\ predator.reaction_timer = 0
        ELSE /\ predator.player_velocity_x = last.before.player_velocity_x
             /\ predator.player_velocity_y = last.before.player_velocity_y
             /\ predator.last_player_x = last.before.last_player_x
             /\ predator.last_player_y = last.before.last_player_y
             /\ predator.reaction_timer
                    = last.before.reaction_timer + last.delta_time

\* C16 witness: a call that perceived a player who had moved since the
\* perception before, after a call that did not perceive.
C16_Witness ==
    /\ Updated
    /\ Perceived
    /\ last.before.reaction_timer > 0
    /\ last.before.last_player_x # last.before.patrol_center_x
    /\ last.player_x # last.before.last_player_x
    /\ predator.player_velocity_x # 0
    /\ predator.player_velocity_x # last.before.player_velocity_x

\* C17 as stated: the estimated player velocity comes from two observed
\* positions of the player, so for a player who has been at one position in
\* every update call so far it is (0, 0) after the call, the first
\* perception of a freshly created predator included.
C17_StationaryTargetNoVelocity ==
    (Updated /\ last.still) =>
        /\ predator.player_velocity_x = 0
        /\ predator.player_velocity_y = 0

\* a is the lead of the last update call on one axis, to the model's
\* resolution: the estimated velocity v on that axis times distance /
\* max_speed * lead, lead in tenths
IsLead(a, v, lead) ==
    Abs(a - RDiv(MulDiv(v, last.distance.len, MaxSpeed) * lead, 10))
        <= 2 + Abs(v) \div 1000

\* +1 when the predator's coordinate c is below the player's, else -1
SideOf(c, player) == IF c < player THEN 1 ELSE -1

\* the interception offset is on the x axis: the estimated velocity's x
\* component is not the larger in absolute value
OffsetOnX ==
    Abs(predator.player_velocity_x) <= Abs(predator.player_velocity_y)

\* C18: the aim point of an update call, before the random error, is in
\* state intercepting the player position plus estimated velocity *
\* (distance / max_speed * 0.8) plus 50 on exactly one axis, the one of the
\* smaller absolute estimated velocity (x when equal), signed +1 when the
\* predator is below the player on that axis and -1 otherwise; in state
\* hunting it is the player position plus estimated velocity * (distance /
\* max_speed * 0.3), with no offset.
C18_AimPoint ==
    Updated =>
        /\ predator.state = "hunting" =>
             /\ IsLead(last.aimed.target_x - last.player_x,
                       predator.player_velocity_x, 3)
             /\ IsLead(last.aimed.target_y - last.player_y,
                       predator.player_velocity_y, 3)
        /\ (predator.state = "intercepting" /\ OffsetOnX) =>
             /\ IsLead(last.aimed.target_x - last.player_x
                         - 50 * Scale * SideOf(last.before.center_x,
                                               last.player_x),
                       predator.player_velocity_x, 8)
             /\ IsLead(last.aimed.target_y - last.player_y,
                       predator.player_velocity_y, 8)
        /\ (predator.state = "intercepting" /\ ~OffsetOnX) =>
             /\ IsLead(last.aimed.target_x - last.player_x,
                       predator.player_velocity_x, 8)
             /\ IsLead(last.aimed.target_y - last.player_y
                         - 50 * Scale * SideOf(last.before.center_y,
                                               last.player_y),
                       predator.player_velocity_y, 8)

\* C18 witness: an intercepting call with an estimated velocity larger on
\* x than on y and the predator above the player, so that the offset is 50
\* down the y axis.
C18_Witness ==
    /\ Updated
    /\ predator.state = "intercepting"
    /\ Abs(predator.player_velocity_x) > Abs(predator.player_velocity_y)
    /\ predator.player_velocity_y # 0
    /\ last.before.center_y > last.player_y
    /\ last.aimed.target_x # last.player_x
    /\ last.aimed.target_y < last.player_y - 50 * Scale

\* the last call, an update or a check_collision, left the patrol circle
\* of the predator as it was
PatrolCircleKept ==
    /\ predator.patrol_center_x = last.before.patrol_center_x
    /\ predator.patrol_center_y = last.before.patrol_center_y
    /\ predator.patrol_radius = last.before.patrol_radius

\* C19: an update call whose state decision ends in patrolling advances
\* patrol_angle by the constant 0.5 * 0.016 radian (8 milliradians),
\* whatever dt is and also while hesitating; a call in hunting or
\* intercepting leaves patrol_angle as it was; no call changes patrol_center
\* or patrol_radius.
C19_PatrolAngleStep ==
    /\ Updated =>
         /\ predator.state = "patrolling"
              => predator.patrol_angle = last.before.patrol_angle + 8
         /\ predator.state \in {"hunting", "intercepting"}
              => predator.patrol_angle = last.before.patrol_angle
    /\ last.op \in {"update", "check_collision"} => PatrolCircleKept

\* C19 witness: a patrolling call with the long frame time that ends
\* hesitating and has advanced patrol_angle.
C19_Witness ==
    /\ Updated
    /\ predator.state = "patrolling"
    /\ predator.is_hesitating
    /\ last.delta_time > 1000
    /\ predator.patrol_angle = last.before.patrol_angle + 8

\* a velocity component v is above 0.1 pixel per second in absolute value
Above01(v) == 10 * Abs(v) > Scale

\* predator record p with its rotation turned by a radian
Turned(p) == [p EXCEPT !.rotation = @ + 1000]

\* the last update call run again on the predator turned by a radian
UpdateTurned ==
    Update(Turned(last.before), last.rng, last.delta_time, last.player_x,
           last.player_y, last.window_width, last.window_height)

\* C20: an update call rewrites rotation, as the direction of the
\* velocity, only when it ends with |velocity_x| > 0.1 or |velocity_y| >
\* 0.1; otherwise rotation keeps the value it had before the call, and does
\* not go back to 0 because the predator stopped.  Rotation is not read by
\* what computes position, velocity or state: the call, and a
\* check_collision, on the predator turned by a radian end as they did,
\* rotation apart.
C20_RotationHoldsWhenStopped ==
    /\ Updated =>
         /\ IF Above01(predator.velocity_x) \/ Above01(predator.velocity_y)
            THEN predator.rotation
                   = Atan2Milli(predator.velocity_y, predator.velocity_x)
            ELSE predator.rotation = last.before.rotation
         /\ [UpdateTurned.p EXCEPT !.rotation = predator.rotation] = predator
         /\ UpdateTurned.g = rng
    /\ last.op = "check_collision" =>
         CheckCollision(Turned(last.before), last.player_x, last.player_y,
                        last.player_size) = last.result

\* C20 witness: a predator that had turned while moving comes to rest in
\* an update call and keeps that rotation.
C20_Witness ==
    /\ Updated
    /\ predator.velocity_x = 0
    /\ predator.velocity_y = 0
    /\ SpeedSq(last.before) > 0
    /\ last.before.rotation # 0
    /\ predator.rotation = last.before.rotation

--------------------------------------------------------------------------
(* Properties of the AudioManager (specification AudioSpec)                *)

\* the last two calls were both toggle_mute, the first on an unmuted
\* manager whose background music was not playing
ToggledTwiceFromSilence ==
    /\ last.op = "toggle_mute"
    /\ last.earlier.op = "toggle_mute"
    /\ ~last.earlier.before.muted
    /\ ~last.earlier.before.background_music_playing

\* C21 as stated: unmuting restarts the background music only if it was
\* playing when the audio was muted, so two toggle_mute calls in a row on
\* an unmuted manager whose background music is not playing leave
\* background_music_playing false.
C21_UnmuteKeepsSilence ==
    ToggledTwiceFromSilence => ~audio.background_music_playing

\* C27: after any sequence of AudioManager calls, a muted manager has no
\* background music (background_music_playing is false and current_music
\* is None), and arcade never plays two background music players at once.
C27_MutedIsSilent ==
    /\ audio.muted =>
         /\ ~audio.background_music_playing
         /\ audio.current_music = 0
    /\ Cardinality(audio.sounding) <= 1
    /\ audio.sounding = IF audio.current_music = 0 THEN {}
                        ELSE {audio.current_music}

\* C27 witness: the manager was muted while its background music played,
\* and start_background_music was then called on the muted manager.
C27_Witness ==
    /\ last.op = "start_background_music"
    /\ last.before.muted
    /\ last.earlier.op = "toggle_mute"
    /\ last.earlier.before.background_music_playing
    /\ audio.played = 1
    /\ audio.sounding = {}

--------------------------------------------------------------------------
(* Properties of the predator under short frames (ShortFramesSpec)         *)

\* the last update call began with the predator hesitating and brought its
\* hesitation_timer above 0.8 seconds
HesitatedOver08 ==
    /\ Updated
    /\ last.before.is_hesitating
    /\ TimerAfterDt > 800

--------------------------------------------------------------------------
(* Properties of the fruits (specification FruitSpec)                      *)

\* the last on_update call of the round shown was made while it was running
FrameRan ==
    /\ calls.by = "on_update"
    /\ ~calls.over
    /\ last.op = "on_update"

\* the i-th fruit the last on_update call began with is touched by player k
\* where the call moved that player to
TouchedBy(i, k) ==
    /\ k <= game.num_players
    /\ FruitCheckCollision(last.before.fruits[i], PlayerOf(game, k).center_x,
                           PlayerOf(game, k).center_y, PLAYER_SIZE)

\* the fruits the last on_update call began with that a player touches
Touched ==
    {i \in 1..Len(last.before.fruits) : TouchedBy(i, 1) \/ TouchedBy(i, 2)}

\* C23: in every state of a round score = 10 * fruits_collected and
\* fruits_collected plus the number of fruits left is 15; an on_update call
\* of a running round counts each fruit a player touches once, also when
\* both players touch it, and removes exactly those fruits.
C23_FruitsCountedOnce ==
    game.created =>
        /\ game.score = 10 * game.fruits_collected
        /\ game.fruits_collected + Len(game.fruits) = NUM_FRUITS
        /\ FrameRan =>
             /\ game.fruits_collected
                  = last.before.fruits_collected + Cardinality(Touched)
             /\ game.fruits
                  = Select(last.before.fruits,
                           [i \in 1..Len(last.before.fruits) |->
                               i \notin Touched], 1)

\* C23 witness: an on_update call in which both players touch a fruit,
\* while other fruits stay.
C23_Witness ==
    /\ FrameRan
    /\ \E i \in Touched : TouchedBy(i, 1) /\ TouchedBy(i, 2)
    /\ Len(game.fruits) > 0
    /\ game.fruits_collected = Cardinality(Touched)

\* the round shown is over: lost, or won with no fruit left
RoundOver ==
    /\ view = "game"
    /\ game.game_over \/ Len(game.fruits) = 0

\* the step leaves predator i of the round where it is, at its velocity
PredatorKept(i) ==
    /\ game'.predators[i].center_x = game.predators[i].center_x
    /\ game'.predators[i].center_y = game.predators[i].center_y
    /\ game'.predators[i].velocity_x = game.predators[i].velocity_x
    /\ game'.predators[i].velocity_y = game.predators[i].velocity_y

\* the step leaves the outcome of the round, its fruits, its players and
\* its predators as they are
RoundKept ==
    /\ game'.game_over = game.game_over
    /\ game'.score = game.score
    /\ game'.fruits_collected = game.fruits_collected
    /\ game'.fruits = game.fruits
    /\ game'.player1 = game.player1
    /\ game'.player2 = game.player2
    /\ Len(game'.predators) = Len(game.predators)
    /\ \A i \in Predators : PredatorKept(i)

\* C24: once the round shown is over (game_over is true or no fruit is
\* left), every on_update call, key press and key release leaves
\* game_over, the score, fruits_collected, the fruits and the position and
\* velocity of every player and predator unchanged, so that game_over
\* never returns to false within a GameView.
C24_OverIsAbsorbing == [][RoundOver => RoundKept]_vars

\* C24 witness: an on_update call was made on a lost round in which a key
\* is held.
C24_Witness ==
    /\ calls.by = "on_update"
    /\ calls.over
    /\ view = "game"
    /\ game.game_over
    /\ game.player1_keys # {}

--------------------------------------------------------------------------
(* Further properties of the predator driven directly (specification Spec) *)

\* C25: after every update call 0 <= reaction_timer < reaction_delay: the
\* call either reset reaction_timer to 0, in a perception, or added exactly
\* dt to it.
C25_ReactionTimerBelowDelay ==
    Updated =>
        /\ 0 <= predator.reaction_timer
        /\ predator.reaction_timer < predator.reaction_delay
        /\ predator.reaction_delay = last.before.reaction_delay
        /\ IF Perceived
           THEN predator.reaction_timer = 0
           ELSE predator.reaction_timer
                  = last.before.reaction_timer + last.delta_time

\* C25 witness: reaction_timer has grown over two update calls in a row
\* and is still below reaction_delay.
C25_Witness ==
    /\ Updated
    /\ ~Perceived
    /\ last.before.reaction_timer > 0
    /\ predator.reaction_timer = last.before.reaction_timer + last.delta_time
    /\ predator.reaction_timer < predator.reaction_delay

\* C26: a new predator is hunting; an update call enters intercepting only
\* from hunting, never from patrolling, and leaves patrolling only for
\* hunting and only when the distance to the player is below 100.
C26_ReachableTransitions ==
    /\ last.op = "__init__" => predator.state = "hunting"
    /\ Updated =>
         /\ (predator.state = "intercepting"
             /\ last.before.state # "intercepting")
               => last.before.state = "hunting"
         /\ (last.before.state = "patrolling"
             /\ predator.state # "patrolling")
               => /\ predator.state = "hunting"
                  /\ LastDistSq < Sq(100 * Scale)

\* C26 witness: a predator that went from hunting through intercepting to
\* patrolling comes back to hunting closer than 100 to the player.
C26_Witness ==
    /\ Updated
    /\ last.before.state = "patrolling"
    /\ predator.state = "hunting"
    /\ LastDistSq < Sq(100 * Scale)

==========================================================================
